---- MODULE Spec2Model ----
(***************************************************************************)
(* Model of main.py: the /extract-bill-data request handler, the scratch   *)
(* file it downloads to, the model discovery of get_best_available_model   *)
(* and the parsing of the generation response.                             *)
(*                                                                         *)
(* Strings the code searches with `in` / replace() are sequences of tokens *)
(* (a model name is <<"models/", "gemini-", "flash">>), Python dicts are   *)
(* functions whose DOMAIN is the set of keys that are present.             *)
(***************************************************************************)
EXTENDS Integers, Sequences, FiniteSets, TLC

VARIABLES pc, download, content, files, tmp, temp_path, ext, poppler, images,
          target_image, img_b64, models_response, model_name, sent,
          status_code, raw_response, e, result

vars == <<pc, download, content, files, tmp, temp_path, ext, poppler, images,
          target_image, img_b64, models_response, model_name, sent,
          status_code, raw_response, e, result>>

(* ---------------------------- bounds ----------------------------------- *)

MaxPages == 2
MaxListing == 3
MaxTextLen == 3

SeqsUpTo(S, n) == UNION {[1..k -> S] : k \in 0..n}

Contains(s, t) == \E i \in 1..Len(s) : s[i] = t

(* ------------------------- download_file ------------------------------- *)

None == "None"

ContentTypes ==
    {<<"application/", "pdf">>, <<"image/", "png">>, <<"image/", "jpeg">>, <<>>}

ExtOf(content_type) ==
    IF Contains(content_type, "pdf") THEN ".pdf"
    ELSE IF Contains(content_type, "png") THEN ".png"
    ELSE ".jpg"

NamedTemporaryFile(suffix) == <<"/tmp/tmp", suffix>>

NoFile == <<"/tmp/tmp", None>>

Documents ==
    {[kind |-> "pdf", pages |-> n, mode |-> "RGB"] : n \in 0..MaxPages}
    \cup {[kind |-> "image", pages |-> 1, mode |-> m] : m \in {"RGB", "RGBA"}}
    \cup {[kind |-> "truncated_image", pages |-> 1, mode |-> "RGB"]}
    \cup {[kind |-> "garbage", pages |-> 0, mode |-> "None"]}

NoDocument == [kind |-> "None", pages |-> 0, mode |-> "None"]

(* ------------------------- image handling ------------------------------ *)

NoImage == [page |-> 0, mode |-> "None"]

convert_from_path(doc) == [i \in 1..doc.pages |-> [page |-> i, mode |-> "RGB"]]

Image_open(doc) == [page |-> 1, mode |-> doc.mode]

\* a slip of the index: the last page instead of the first
FirstImage_last(imgs) == imgs[Len(imgs)]

FirstImage(imgs) == imgs[1]

NoB64 == [page |-> 0, mode |-> "None", format |-> "None"]

image_to_base64(image) ==
    LET rgb == IF image.mode # "RGB" THEN [image EXCEPT !.mode = "RGB"] ELSE image
    IN  [page |-> rgb.page, mode |-> rgb.mode, format |-> "JPEG"]

(* --------------------- get_best_available_model ------------------------ *)

DefaultModel == <<"gemini-", "1.5-", "flash">>

Names ==
    { <<"models/", "gemini-", "2.0-", "flash">>,
      <<"models/", "gemini-", "flash", "exp">>,
      <<"models/", "gemini-", "flash", "002">>,
      <<"models/", "gemini-", "pro">>,
      <<"models/", "gemini-", "pro", "preview">>,
      <<"models/", "gemma">>,
      <<"models/", "gemini-", "exp">>,
      <<"models/", "embedding", "flash">> }

Methods == { {"generateContent", "countTokens"}, {"embedContent"} }

Entries ==
    {[name |-> n, supportedGenerationMethods |-> ms] : n \in Names, ms \in Methods}
    \cup {[name |-> <<"models/", "gemma">>]}
    \cup {[supportedGenerationMethods |-> {"generateContent", "countTokens"}]}

Generative(n) ==
    [name |-> n, supportedGenerationMethods |-> {"generateContent", "countTokens"}]

ListingResponse(raises, status, data) ==
    [raises |-> raises, status_code |-> status, data |-> data]

NoListing == ListingResponse(FALSE, 0, [k \in {} |-> <<>>])

ListingResponses(E, n) ==
    { ListingResponse(TRUE, 0, [k \in {} |-> <<>>]),
      ListingResponse(FALSE, 403, [k \in {} |-> <<>>]),
      ListingResponse(FALSE, 200, [k \in {} |-> <<>>]) }
    \cup {ListingResponse(FALSE, 200, [models |-> ms]) : ms \in SeqsUpTo(E, n)}

StripName(name) == SelectSeq(name, LAMBDA t : t # "models/")

is_risky(name) ==
    Contains(name, "exp") \/ Contains(name, "preview") \/ Contains(name, "002")

Malformed(m) == "name" \notin DOMAIN m

MethodsOf(m) ==
    IF "supportedGenerationMethods" \in DOMAIN m
    THEN m.supportedGenerationMethods ELSE {}

Passes(m) ==
    /\ "generateContent" \in MethodsOf(m)
    /\ ~Contains(StripName(m.name), "embedding")

Candidate(m) == [name |-> StripName(m.name), risky |-> is_risky(StripName(m.name))]

RECURSIVE valid_candidates(_)
valid_candidates(all_models) ==
    IF all_models = <<>> THEN <<>>
    ELSE LET m == Head(all_models)
             rest == valid_candidates(Tail(all_models))
         IN  IF Passes(m) THEN <<Candidate(m)>> \o rest ELSE rest

RECURSIVE FirstSafe(_, _)
FirstSafe(cands, word) ==
    IF cands = <<>> THEN <<>>
    ELSE IF Contains(Head(cands).name, word) /\ ~Head(cands).risky
         THEN Head(cands).name
         ELSE FirstSafe(Tail(cands), word)

\* the two preference loops swapped
Select_pro_first(cands) ==
    IF FirstSafe(cands, "pro") # <<>> THEN FirstSafe(cands, "pro")
    ELSE IF FirstSafe(cands, "flash") # <<>> THEN FirstSafe(cands, "flash")
    ELSE cands[1].name

Select(cands) ==
    IF FirstSafe(cands, "flash") # <<>> THEN FirstSafe(cands, "flash")
    ELSE IF FirstSafe(cands, "pro") # <<>> THEN FirstSafe(cands, "pro")
    ELSE cands[1].name

Returned(name) == [raised |-> FALSE, value |-> name]

Raised == [raised |-> TRUE, value |-> <<>>]

Discovery(response) ==
    IF response.raises THEN Raised
    ELSE IF response.status_code # 200 THEN Returned(DefaultModel)
    ELSE LET all_models == IF "models" \in DOMAIN response.data
                           THEN response.data.models ELSE <<>>
         IN  IF \E i \in 1..Len(all_models) : Malformed(all_models[i]) THEN Raised
             ELSE IF valid_candidates(all_models) = <<>> THEN Raised
             ELSE Returned(Select(valid_candidates(all_models)))

\* the try/except around the discovery left out
get_best_available_model_uncaught(response) == Discovery(response)

get_best_available_model(response) ==
    IF Discovery(response).raised THEN Returned(DefaultModel)
    ELSE Discovery(response)

NoModel == Returned(<<>>)

\* the listings the handler's discovery call is answered with
HandlerListings ==
    { ListingResponse(FALSE, 403, [k \in {} |-> <<>>]),
      ListingResponse(FALSE, 200,
          [models |-> <<Generative(<<"models/", "gemini-", "2.0-", "flash">>)>>]),
      ListingResponse(FALSE, 200,
          [models |-> <<Generative(<<"models/", "gemini-", "exp">>),
                        Generative(<<"models/", "gemma">>)>>]) }

(* ---------------------- generation response --------------------------- *)

\* "fence" is the three-backquote code fence; the opening fence of a json block
\* is "fence" followed by "json"
Tokens == {"fence", "json", " ", "[", "]", "1"}

Texts == SeqsUpTo(Tokens, MaxTextLen)

UsageCounts ==
    [totalTokenCount |-> 5, promptTokenCount |-> 3, candidatesTokenCount |-> 2]

Restrict(f, S) == [k \in S |-> f[k]]

Usages == {Restrict(UsageCounts, S) : S \in SUBSET DOMAIN UsageCounts}

Blocked == [finishReason |-> "SAFETY"]

TextCandidates == {[finishReason |-> "STOP", text |-> t] : t \in Texts}

CandidateLists ==
    {<<>>} \cup {<<c>> : c \in TextCandidates \cup {Blocked}}
           \cup {<<c, Blocked>> : c \in TextCandidates}

Bodies ==
    {[usageMetadata |-> u] : u \in Usages}
    \cup {[candidates |-> cs] : cs \in CandidateLists}
    \cup {[candidates |-> cs, usageMetadata |-> u] : cs \in CandidateLists, u \in Usages}

NoBody == [k \in {} |-> <<>>]

StatusCodes == {200, 404, 429, 500}

\* only server errors raise
ApiError_5xx(status) == status >= 500

ApiError(status) == status # 200

\* replace() of a fence by the empty string, then strip()
Replace(text, token) == SelectSeq(text, LAMBDA t : t # token)

\* replace() of the two-token string <<a, b>>, left to right
RECURSIVE ReplacePair(_, _, _)
ReplacePair(text, a, b) ==
    IF Len(text) < 2 THEN text
    ELSE IF text[1] = a /\ text[2] = b THEN ReplacePair(Tail(Tail(text)), a, b)
    ELSE <<Head(text)>> \o ReplacePair(Tail(text), a, b)

RECURSIVE lstrip(_)
lstrip(text) ==
    IF text # <<>> /\ Head(text) = " " THEN lstrip(Tail(text)) ELSE text

RECURSIVE rstrip(_)
rstrip(text) ==
    IF text # <<>> /\ text[Len(text)] = " "
    THEN rstrip(SubSeq(text, 1, Len(text) - 1)) ELSE text

clean_text(text_part) ==
    rstrip(lstrip(Replace(ReplacePair(text_part, "fence", "json"), "fence")))

JNumber(n) == [json |-> "number", n |-> n]

JArray(items) == [json |-> "array", items |-> items]

JSONDecodeError == [ok |-> FALSE, value |-> [json |-> "error"]]

Decoded(v) == [ok |-> TRUE, value |-> v]

\* json.loads over the grammar  value ::= 1 | [ ] | [ value ]  with
\* insignificant whitespace between the tokens.
RECURSIVE JsonValue(_)
JsonValue(toks) ==
    IF toks = <<"1">> THEN Decoded(JNumber(1))
    ELSE IF Len(toks) >= 2 /\ toks[1] = "[" /\ toks[Len(toks)] = "]"
    THEN IF Len(toks) = 2 THEN Decoded(JArray(<<>>))
         ELSE LET inner == JsonValue(SubSeq(toks, 2, Len(toks) - 1))
              IN  IF inner.ok THEN Decoded(JArray(<<inner.value>>))
                  ELSE JSONDecodeError
    ELSE JSONDecodeError

json_loads(text) == JsonValue(Replace(text, " "))

EmptyData == [json |-> "object", pagewise_line_items |-> <<>>, total_item_count |-> 0]

ZeroUsage == [total_tokens |-> 0, input_tokens |-> 0, output_tokens |-> 0]

Get(dict, key, default) == IF key \in DOMAIN dict THEN dict[key] ELSE default

\* input and output counters read from the same key
TokenUsage_swapped(usage) ==
    [total_tokens |-> Get(usage, "totalTokenCount", 0),
     input_tokens |-> Get(usage, "candidatesTokenCount", 0),
     output_tokens |-> Get(usage, "candidatesTokenCount", 0)]

TokenUsage(usage) ==
    [total_tokens |-> Get(usage, "totalTokenCount", 0),
     input_tokens |-> Get(usage, "promptTokenCount", 0),
     output_tokens |-> Get(usage, "candidatesTokenCount", 0)]

ParseFails(raw) ==
    LET candidates == Get(raw, "candidates", <<>>)
    IN  \/ candidates = <<>>
        \/ "text" \notin DOMAIN candidates[1]
        \/ ~json_loads(clean_text(candidates[1].text)).ok

\* the usage read before the try block, so that it survives a parse failure
ParseBody_usage_kept(raw) ==
    IF ParseFails(raw)
    THEN [data |-> EmptyData,
          token_usage |-> TokenUsage(Get(raw, "usageMetadata", NoBody))]
    ELSE [data |-> json_loads(clean_text(raw.candidates[1].text)).value,
          token_usage |-> TokenUsage(Get(raw, "usageMetadata", NoBody))]

ParseBody(raw) ==
    IF ParseFails(raw)
    THEN [data |-> EmptyData, token_usage |-> ZeroUsage]
    ELSE [data |-> json_loads(clean_text(raw.candidates[1].text)).value,
          token_usage |-> TokenUsage(Get(raw, "usageMetadata", NoBody))]

SuccessResponse(parsed) ==
    [is_success |-> TRUE, token_usage |-> parsed.token_usage, data |-> parsed.data]

\* the failure body built without resetting the success flag
ErrorResponse_success(err) ==
    [is_success |-> TRUE, token_usage |-> ZeroUsage, data |-> EmptyData,
     error |-> err]

ErrorResponse(err) ==
    [is_success |-> FALSE, token_usage |-> ZeroUsage, data |-> EmptyData,
     error |-> err]

NoResult == [k \in {} |-> <<>>]

RemoveTemp(path, fs) == IF path # NoFile /\ path \in fs THEN fs \ {path} ELSE fs

(* ------------------------------ state ---------------------------------- *)

Init ==
    /\ pc = "download"
    /\ download = None
    /\ content = NoDocument
    /\ files = {}
    /\ tmp = NoFile
    /\ temp_path = NoFile
    /\ ext = None
    /\ poppler = TRUE
    /\ images = <<>>
    /\ target_image = NoImage
    /\ img_b64 = NoB64
    /\ models_response = NoListing
    /\ model_name = NoModel
    /\ sent = <<>>
    /\ status_code = 0
    /\ raw_response = NoBody
    /\ e = None
    /\ result = NoResult

\* download_file called at the top of the handler: requests.get or
\* raise_for_status raises, or the scratch file is created and the chunk loop
\* raises, or the file is written and (tmp.name, ext) is returned.
DownloadFile ==
    /\ pc = "download"
    /\ \/ /\ download' = "get_raises"
          /\ e' = "Download failed"
          /\ pc' = "except"
          /\ UNCHANGED <<content, files, tmp, temp_path, ext>>
       \/ \E content_type \in ContentTypes :
             /\ download' = "write_raises"
             /\ tmp' = NamedTemporaryFile(ExtOf(content_type))
             /\ files' = files \cup {tmp'}
             /\ e' = "Download failed"
             /\ pc' = "except"
             /\ UNCHANGED <<content, temp_path, ext>>
       \/ \E content_type \in ContentTypes, doc \in Documents :
             /\ download' = "ok"
             /\ tmp' = NamedTemporaryFile(ExtOf(content_type))
             /\ files' = files \cup {tmp'}
             /\ content' = doc
             /\ temp_path' = tmp'
             /\ ext' = ExtOf(content_type)
             /\ pc' = "get_image"
             /\ UNCHANGED e
    /\ UNCHANGED <<poppler, images, target_image, img_b64, models_response,
                   model_name, sent, status_code, raw_response, result>>

\* step 2 of the handler: rasterize a .pdf and take images[0], open anything
\* else as an image, raise when there is no image
GetImage ==
    /\ pc = "get_image"
    /\ \/ /\ ext = ".pdf"
          /\ \E installed \in BOOLEAN :
                /\ poppler' = installed
                /\ IF ~installed \/ content.kind # "pdf"
                   THEN /\ e' = "PDF Error. Is Poppler installed?"
                        /\ pc' = "except"
                        /\ UNCHANGED <<images, target_image>>
                   ELSE /\ images' = convert_from_path(content)
                        /\ target_image' =
                              IF images' # <<>> THEN FirstImage(images') ELSE NoImage
                        /\ IF target_image' = NoImage
                           THEN e' = "No image found." /\ pc' = "except"
                           ELSE pc' = "encode" /\ UNCHANGED e
       \/ /\ ext # ".pdf"
          /\ IF content.kind \notin {"image", "truncated_image"}
             THEN /\ e' = "cannot identify image file"
                  /\ pc' = "except"
                  /\ UNCHANGED target_image
             ELSE /\ target_image' = Image_open(content)
                  /\ pc' = "encode"
                  /\ UNCHANGED e
          /\ UNCHANGED <<poppler, images>>
    /\ UNCHANGED <<download, content, files, tmp, temp_path, ext, img_b64,
                   models_response, model_name, sent, status_code, raw_response,
                   result>>

\* step 3 of the handler; Image.open reads lazily, so that a truncated image
\* raises only when image_to_base64 converts or saves it
EncodeImage ==
    /\ pc = "encode"
    /\ IF ext # ".pdf" /\ content.kind = "truncated_image"
       THEN /\ e' = "image file is truncated"
            /\ pc' = "except"
            /\ UNCHANGED img_b64
       ELSE /\ img_b64' = image_to_base64(target_image)
            /\ pc' = "call"
            /\ UNCHANGED e
    /\ UNCHANGED <<download, content, files, tmp, temp_path, ext, poppler, images,
                   target_image, models_response, model_name, sent, status_code,
                   raw_response, result>>

\* step 4 of the handler, call_gemini_auto: discover the model, post one
\* generation request, raise on a status other than 200
CallGeminiAuto ==
    /\ pc = "call"
    /\ \E listing \in HandlerListings :
          /\ models_response' = listing
          /\ model_name' = get_best_available_model(listing)
          /\ IF model_name'.raised
             THEN /\ e' = "Discovery failed"
                  /\ pc' = "except"
                  /\ UNCHANGED <<sent, status_code, raw_response>>
             ELSE /\ sent' = Append(sent, [model |-> model_name'.value, data |-> img_b64])
                  /\ \/ /\ e' = "ConnectionError"
                        /\ pc' = "except"
                        /\ UNCHANGED <<status_code, raw_response>>
                     \/ \E status \in StatusCodes :
                           /\ status_code' = status
                           /\ IF ApiError(status)
                              THEN /\ e' = "Google API Error"
                                   /\ pc' = "except"
                                   /\ UNCHANGED raw_response
                              ELSE /\ \E body \in Bodies : raw_response' = body
                                   /\ pc' = "parse"
                                   /\ UNCHANGED e
    /\ UNCHANGED <<download, content, files, tmp, temp_path, ext, poppler, images,
                   target_image, img_b64, result>>

\* step 5 of the handler, the return of the success body and the finally block
ParseAndReturn ==
    /\ pc = "parse"
    /\ result' = SuccessResponse(ParseBody(raw_response))
    /\ files' = RemoveTemp(temp_path, files)
    /\ pc' = "returned"
    /\ UNCHANGED <<download, content, tmp, temp_path, ext, poppler, images,
                   target_image, img_b64, models_response, model_name, sent,
                   status_code, raw_response, e>>

\* the handler's except Exception block and the finally block
Except ==
    /\ pc = "except"
    /\ result' = ErrorResponse(e)
    /\ files' = RemoveTemp(temp_path, files)
    /\ pc' = "returned"
    /\ UNCHANGED <<download, content, tmp, temp_path, ext, poppler, images,
                   target_image, img_b64, models_response, model_name, sent,
                   status_code, raw_response, e>>

Next ==
    \/ DownloadFile
    \/ GetImage
    \/ EncodeImage
    \/ CallGeminiAuto
    \/ ParseAndReturn
    \/ Except

Spec == Init /\ [][Next]_vars

(* ------------- get_best_available_model on its own inputs --------------- *)

InitDiscovery ==
    /\ pc = "discover"
    /\ download = None
    /\ content = NoDocument
    /\ files = {}
    /\ tmp = NoFile
    /\ temp_path = NoFile
    /\ ext = None
    /\ poppler = TRUE
    /\ images = <<>>
    /\ target_image = NoImage
    /\ img_b64 = NoB64
    /\ models_response = NoListing
    /\ model_name = NoModel
    /\ sent = <<>>
    /\ status_code = 0
    /\ raw_response = NoBody
    /\ e = None
    /\ result = NoResult

Discover ==
    /\ pc = "discover"
    /\ \E listing \in ListingResponses(Entries, MaxListing) :
          /\ models_response' = listing
          /\ model_name' = get_best_available_model(listing)
    /\ pc' = "discovered"
    /\ UNCHANGED <<download, content, files, tmp, temp_path, ext, poppler, images,
                   target_image, img_b64, sent, status_code, raw_response, e,
                   result>>

NextDiscovery == Discover

SpecDiscovery == InitDiscovery /\ [][NextDiscovery]_vars

(* ------------------------- properties: handler -------------------------- *)

HandlerReturned == pc = "returned"

HasFirstText ==
    /\ "candidates" \in DOMAIN raw_response
    /\ raw_response.candidates # <<>>
    /\ "text" \in DOMAIN raw_response.candidates[1]

FirstText == raw_response.candidates[1].text

WellFormedOutput == HasFirstText /\ json_loads(clean_text(FirstText)).ok

Counter(key) ==
    IF "usageMetadata" \in DOMAIN raw_response /\ key \in DOMAIN raw_response.usageMetadata
    THEN raw_response.usageMetadata[key]
    ELSE 0

ConversionFailed ==
    \/ ext = ".pdf" /\ (~poppler \/ content.kind # "pdf" \/ content.pages = 0)
    \/ ext # ".pdf" /\ content.kind # "image"

FailureCause ==
    \/ download # "ok"
    \/ ConversionFailed
    \/ sent # <<>> /\ status_code # 200

IsFailureBody(r) ==
    /\ DOMAIN r = {"is_success", "token_usage", "data", "error"}
    /\ r.is_success = FALSE
    /\ r.error # None
    /\ r.token_usage = ZeroUsage
    /\ r.data = EmptyData

\* C1: when the handler has returned, a scratch file created for the request
\* no longer exists, on every exit path (a download that fails while the
\* chunks are written included).
C1_ScratchFileRemoved == HandlerReturned /\ tmp # NoFile => tmp \notin files

\* C2: the handler always ends by returning a body, never by an exception;
\* after a failed download, an unsupported or corrupt document, a failed or
\* empty rasterization or a generation status other than 200 the body has
\* is_success = false, an error string, zero token_usage and the empty data.
C2_FailuresReturnErrorBody ==
    /\ pc \in {"download", "get_image", "encode", "call", "parse", "except", "returned"}
    /\ HandlerReturned => "is_success" \in DOMAIN result
    /\ HandlerReturned /\ FailureCause => IsFailureBody(result)

C2_Witness ==
    /\ HandlerReturned
    /\ sent # <<>>
    /\ status_code = 500
    /\ IsFailureBody(result)

\* C3: a 200 generation response whose output is not parseable JSON (or that
\* has no candidates) makes the handler return is_success = false with the
\* empty default data.
C3_UnparseableOutputIsFailure ==
    HandlerReturned /\ status_code = 200 /\ ~WellFormedOutput
        => result.is_success = FALSE /\ result.data = EmptyData

\* C4: when download, conversion and generation succeed and the first
\* candidate's text without its code fences is well-formed JSON, the body has
\* is_success = true, the parsed value as data, no error field and the usage
\* metadata counters (0 for an absent counter) as token_usage.
C4_WellFormedOutputIsReturned ==
    HandlerReturned /\ status_code = 200 /\ WellFormedOutput
        => /\ DOMAIN result = {"is_success", "token_usage", "data"}
           /\ result.is_success = TRUE
           /\ result.data = json_loads(clean_text(FirstText)).value
           /\ result.token_usage =
                 [total_tokens |-> Counter("totalTokenCount"),
                  input_tokens |-> Counter("promptTokenCount"),
                  output_tokens |-> Counter("candidatesTokenCount")]

C4_Witness ==
    /\ HandlerReturned
    /\ status_code = 200
    /\ HasFirstText
    /\ FirstText = <<"fence", "json", "1">>
    /\ "usageMetadata" \in DOMAIN raw_response
    /\ DOMAIN raw_response.usageMetadata = {"totalTokenCount", "candidatesTokenCount"}
    /\ result.data = JNumber(1)
    /\ result.token_usage = [total_tokens |-> 5, input_tokens |-> 0, output_tokens |-> 2]

CandidateNames ==
    IF models_response.status_code = 200 /\ "models" \in DOMAIN models_response.data
    THEN {StripName(models_response.data.models[i].name) :
             i \in {j \in 1..Len(models_response.data.models) :
                       Passes(models_response.data.models[j])}}
    ELSE {DefaultModel}

Tried(name) == \E k \in 1..Len(sent) : sent[k].model = name

\* C6 as stated: after a 429 or 404 from the selected model the handler goes
\* on to the next candidate, and reports failure only once every candidate
\* of the list was tried.
C6_RetriesNextCandidate ==
    HandlerReturned /\ status_code \in {404, 429} /\ result.is_success = FALSE
        => \A name \in CandidateNames : Tried(name)

\* C6 amended: every generation status other than 200, 429 and 404 included,
\* is terminal: exactly one generation request was sent, to the model that
\* get_best_available_model selected, no other candidate is tried and the
\* request is reported as failed.
C6_AnyErrorStatusIsTerminal ==
    /\ Len(sent) <= 1
    /\ HandlerReturned /\ sent # <<>> /\ status_code # 200
          => /\ Len(sent) = 1
             /\ sent[1].model = model_name.value
             /\ result.is_success = FALSE

C6_Witness ==
    /\ HandlerReturned
    /\ status_code = 429
    /\ Cardinality(CandidateNames) = 2
    /\ Len(sent) = 1
    /\ result.is_success = FALSE

\* C7: a failure while parsing the response (no candidates, no text part,
\* text that is not JSON once the fences are removed) does not end the
\* request with an exception: a body is returned whose data is the fixed
\* empty structure and whose three token_usage counters are 0, whatever the
\* usage metadata of the response.
C7_ParseFailureGivesEmptyResult ==
    HandlerReturned /\ status_code = 200 /\ ~WellFormedOutput
        => /\ {"token_usage", "data"} \subseteq DOMAIN result
           /\ result.data = EmptyData
           /\ result.token_usage = ZeroUsage

C7_Witness ==
    /\ HandlerReturned
    /\ status_code = 200
    /\ HasFirstText
    /\ FirstText = <<"fence", "json", "[">>
    /\ Counter("totalTokenCount") = 5
    /\ Counter("promptTokenCount") = 3
    /\ result.token_usage = ZeroUsage
    /\ result.data = EmptyData

\* C8: for a .pdf every image forwarded to the model is the first page of the
\* rasterization, and a rasterization of zero pages sends no generation
\* request and ends with is_success = false.
C8_OnlyFirstPdfPageForwarded ==
    /\ ext = ".pdf" =>
          \A k \in 1..Len(sent) :
             sent[k].data = [page |-> 1, mode |-> "RGB", format |-> "JPEG"]
    /\ HandlerReturned /\ ext = ".pdf" /\ poppler /\ content.kind = "pdf" /\ content.pages = 0
          => sent = <<>> /\ result.is_success = FALSE

C8_Witness ==
    /\ HandlerReturned
    /\ ext = ".pdf"
    /\ Len(images) = 2
    /\ Len(sent) = 1
    /\ sent[1].data.page = 1

(* ------------------ properties: get_best_available_model ---------------- *)

Discovered == pc = "discovered"

Listed ==
    IF ~models_response.raises /\ models_response.status_code = 200
       /\ "models" \in DOMAIN models_response.data
    THEN models_response.data.models ELSE <<>>

HasName(i) == "name" \in DOMAIN Listed[i]

NameOf(i) == SelectSeq(Listed[i].name, LAMBDA t : t # "models/")

Eligible(i) ==
    /\ HasName(i)
    /\ "supportedGenerationMethods" \in DOMAIN Listed[i]
    /\ "generateContent" \in Listed[i].supportedGenerationMethods
    /\ \A k \in 1..Len(Listed[i].name) : Listed[i].name[k] # "embedding"

Risky(name) == \E k \in 1..Len(name) : name[k] \in {"exp", "preview", "002"}

Safe(i, word) ==
    /\ Eligible(i)
    /\ \E k \in 1..Len(Listed[i].name) : Listed[i].name[k] = word
    /\ ~Risky(NameOf(i))

First(P(_)) == CHOOSE i \in 1..Len(Listed) : P(i) /\ \A j \in 1..(i - 1) : ~P(j)

SafeFlash(i) == Safe(i, "flash")

SafePro(i) == Safe(i, "pro")

Preferred ==
    IF \E i \in 1..Len(Listed) : SafeFlash(i) THEN NameOf(First(SafeFlash))
    ELSE IF \E i \in 1..Len(Listed) : SafePro(i) THEN NameOf(First(SafePro))
    ELSE NameOf(First(Eligible))

FromListingOnlyEligible ==
    model_name.value # DefaultModel
        => \E i \in 1..Len(Listed) : Eligible(i) /\ model_name.value = NameOf(i)

C9_RiskyOnlyIfOnlyOption ==
    Discovered /\ Risky(model_name.value)
        => ~\E i \in 1..Len(Listed) : Eligible(i) /\ ~Risky(NameOf(i))

UsesDefault ==
    \/ models_response.raises
    \/ models_response.status_code # 200
    \/ \E i \in 1..Len(Listed) : ~HasName(i)
    \/ ~\E i \in 1..Len(Listed) : Eligible(i)

\* C10: get_best_available_model never propagates an exception; it returns
\* the default gemini-1.5-flash when the listing call fails, returns a status
\* other than 200, lists a malformed entry or lists no entry that passes the
\* filter, and otherwise the name of an entry that passed the filter.
C10_AlwaysReturnsAName ==
    Discovered =>
        /\ model_name.raised = FALSE
        /\ UsesDefault => model_name.value = DefaultModel
        /\ ~UsesDefault =>
              \E i \in 1..Len(Listed) : Eligible(i) /\ model_name.value = NameOf(i)

C10_Witness ==
    /\ Discovered
    /\ \E i \in 1..Len(Listed) : ~HasName(i)
    /\ \E i \in 1..Len(Listed) : Eligible(i)
    /\ model_name = Returned(DefaultModel)

====
